---- MODULE Spec2Model ----
(***************************************************************************)
(* A model of bong_kindle/scrape.py: the link, chapter, metadata and cover *)
(* extractors, the document writer save_book and the assembler             *)
(* scrape_book_from_url.                                                   *)
(*                                                                         *)
(* Strings are sequences of one-character strings.  An HTTP response is a  *)
(* record of what the code reads from it.  A Python call either returns a  *)
(* value or raises: [raised |-> <exception name or "none">, value |-> v].  *)
(* An ordered dict is a sequence of [k, v] records without repeated keys.  *)
(***************************************************************************)
EXTENDS Integers, Sequences, FiniteSets, TLC

VARIABLES
    pc,             \* position of the running call
    links_in,       \* response handed to extract_preview_links_and_titles
    links_out,      \* its outcome
    para_in,        \* response handed to get_paragraphs_from_url
    para_out,       \* its outcome
    save_file,      \* scrape_book_from_url's save_file argument / local
    chapter_links,  \* scrape_book_from_url's chapter_links
    header_in,      \* listing response seen by get_title_and_author
    title,
    author,
    cover_in,       \* listing and image responses seen by get_cover_picture
    cover_picture,
    book,
    listing_gets,   \* GETs of the listing url issued so far
    chapter_gets,   \* GETs of chapter urls issued so far
    error,          \* the exception that ended the run, or "none"
    error_at,       \* the call that raised it
    sb_path,        \* the save_file argument handed to save_book
    temp_file,      \* save_book's temp_file: "none", "open" or "closed"
    temp_exists,    \* whether the temporary cover file is on the filesystem
    epub_cover,     \* whether epub_file.cover was set
    epub_chapters,  \* chapter titles added to epub_file, in order
    output_file     \* the path epub_file.create wrote, if any

vars == <<pc, links_in, links_out, para_in, para_out, save_file, chapter_links,
          header_in, title, author, cover_in, cover_picture, book,
          listing_gets, chapter_gets, error, error_at, sb_path, temp_file,
          temp_exists, epub_cover, epub_chapters, output_file>>

linkVars == <<links_in, links_out>>
paraVars == <<para_in, para_out>>
runVars == <<save_file, chapter_links, header_in, title, author, cover_in,
             cover_picture, book, listing_gets, chapter_gets, error, error_at,
             sb_path, temp_file, temp_exists, epub_cover, epub_chapters,
             output_file>>

----------------------------------------------------------------------------
(* Bounds of the model. *)

MaxPreviews == 3
MaxParagraphs == 14

----------------------------------------------------------------------------
(* Python values. *)

None == [is_none |-> TRUE]
Some(x) == [is_none |-> FALSE, val |-> x]
Truthy(opt) == ~opt.is_none /\ opt.val # <<>>

Returned(v) == [raised |-> "none", value |-> v]
Raised(e) == [raised |-> e, value |-> None]

SP == " "

RECURSIVE LStrip(_)
LStrip(s) == IF s # <<>> /\ Head(s) = SP THEN LStrip(Tail(s)) ELSE s

RECURSIVE RStrip(_)
RStrip(s) ==
    IF s # <<>> /\ s[Len(s)] = SP THEN RStrip(SubSeq(s, 1, Len(s) - 1)) ELSE s

Strip(s) == RStrip(LStrip(s))

SeqsUpTo(S, n) == UNION {[1..m -> S] : m \in 0..n}

DictHas(d, k) == \E i \in 1..Len(d) : d[i].k = k

DictSetMoveToEnd(d, k, v) ==
    SelectSeq(d, LAMBDA e : e.k # k) \o <<[k |-> k, v |-> v]>>

DictSet(d, k, v) ==
    IF DictHas(d, k)
    THEN [i \in 1..Len(d) |-> IF d[i].k = k THEN [k |-> k, v |-> v] ELSE d[i]]
    ELSE Append(d, [k |-> k, v |-> v])

DictKeys(d) == [i \in 1..Len(d) |-> d[i].k]

----------------------------------------------------------------------------
(* extract_preview_links_and_titles *)

PreviewHrefs == {<<"u">>, <<SP, "u">>, <<"v">>}
PreviewTitles == {<<"a">>, <<"a", SP>>, <<"b">>}

\* A div.ld-item-list-item-preview: whether it holds an a[href], the href,
\* whether that anchor holds a div.ld-item-title, and the title's text.
PreviewDivs ==
    [anchor : {TRUE}, href : PreviewHrefs, title_div : {TRUE}, title : PreviewTitles]
    \cup {[anchor |-> FALSE, href |-> <<>>, title_div |-> FALSE, title |-> <<>>],
          [anchor |-> TRUE, href |-> <<"u">>, title_div |-> FALSE, title |-> <<>>]}

LinkResponses ==
    {[ok |-> FALSE, previews |-> <<>>]}
    \cup [ok : {TRUE}, previews : SeqsUpTo(PreviewDivs, MaxPreviews)]

PreviewStepKeepsUntitled(result_mapping, preview_div) ==
    IF ~preview_div.anchor THEN result_mapping
    ELSE DictSet(result_mapping, Strip(preview_div.title), Strip(preview_div.href))

PreviewStep(result_mapping, preview_div) ==
    IF ~preview_div.anchor THEN result_mapping
    ELSE IF ~preview_div.title_div THEN result_mapping
    ELSE DictSet(result_mapping, Strip(preview_div.title), Strip(preview_div.href))

RECURSIVE PreviewLoop(_, _)
PreviewLoop(result_mapping, preview_divs) ==
    IF preview_divs = <<>> THEN result_mapping
    ELSE PreviewLoop(PreviewStep(result_mapping, Head(preview_divs)),
                     Tail(preview_divs))

extract_preview_links_and_titles(response) ==
    IF ~response.ok THEN Raised("RequestException")
    ELSE Returned(PreviewLoop(<<>>, response.previews))

----------------------------------------------------------------------------
(* get_paragraphs_from_url *)

TRIM == 12

NL == "\n"

HtmlWord == <<"h", "t", "m", "l">>
TextHtml == <<"t", "e", "x", "t", "/">> \o HtmlWord
ApplicationJson == <<"j", "s", "o", "n">>

\* "sub in s" of Python strings.
Contains(s, sub) ==
    \E i \in 1..(Len(s) - Len(sub) + 1) : SubSeq(s, i, i + Len(sub) - 1) = sub

\* s[:-n] of a Python list, n > 0.
PySliceDropLastOffByOne(s, n) ==
    SubSeq(s, 1, IF Len(s) > n - 1 THEN Len(s) - (n - 1) ELSE 0)

PySliceDropLast(s, n) == SubSeq(s, 1, IF Len(s) > n THEN Len(s) - n ELSE 0)

\* sep.join(parts) of Python strings.
RECURSIVE Join(_, _)
Join(sep, parts) ==
    IF parts = <<>> THEN <<>>
    ELSE IF Len(parts) = 1 THEN parts[1]
    ELSE parts[1] \o sep \o Join(sep, Tail(parts))

\* The text of the i-th <p> of the page at url; the second one is padded.
ParagraphText(url, i) ==
    IF i = 2 THEN <<SP>> \o url \o <<ToString(i)>> \o <<SP>>
    ELSE url \o <<ToString(i)>>

\* The <p> texts of a page of n paragraphs whose e-th one is blank.
Page(url, n, e, blank) ==
    [i \in 1..n |-> IF i = e THEN blank ELSE ParagraphText(url, i)]

Pages(url, maxn) ==
    {Page(url, n, e, blank) : n \in 0..maxn, e \in 0..maxn, blank \in {<<>>, <<SP>>}}

\* The pages without a blank paragraph.
PlainPages(url, maxn) == {Page(url, n, 0, <<>>) : n \in 0..maxn}

\* What get_paragraphs_from_url reads of the response to its GET: whether the
\* request succeeded with a success status, the Content-Type header if any,
\* and the texts of the <p> elements of the body in document order.
ChapterResponses(url, pages) ==
    {[ok |-> FALSE, content_type |-> None, paragraphs |-> <<>>]}
    \cup [ok : {TRUE}, content_type : {None, Some(ApplicationJson)},
          paragraphs : {Page(url, 1, 0, <<>>)}]
    \cup [ok : {TRUE}, content_type : {Some(TextHtml)}, paragraphs : pages]

get_paragraphs_from_url(response) ==
    IF ~response.ok THEN Raised("RequestException")
    ELSE LET content_type ==
                 IF response.content_type.is_none THEN <<>>
                 ELSE response.content_type.val
             stripped == [i \in 1..Len(response.paragraphs) |->
                              Strip(response.paragraphs[i])]
             paragraphs ==
                 PySliceDropLast(SelectSeq(stripped, LAMBDA p : p # <<>>), TRIM)
         IN IF ~Contains(content_type, HtmlWord) THEN Raised("ValueError")
            ELSE Returned(Join(<<NL, NL>>, paragraphs))

----------------------------------------------------------------------------
(* get_title_and_author *)

\* The non-blank characters of the delimiter literal, taken as one character.
DASH == "~"

Delimiter == <<SP, DASH, SP>>

\* s.split(sep) of Python strings: the non-overlapping occurrences of sep,
\* found from the left.
RECURSIVE Split(_, _)
Split(s, sep) ==
    LET hits == {i \in 1..(Len(s) - Len(sep) + 1) : SubSeq(s, i, i + Len(sep) - 1) = sep}
    IN IF hits = {} THEN <<s>>
       ELSE LET i == CHOOSE h \in hits : \A g \in hits : h <= g
            IN <<SubSeq(s, 1, i - 1)>> \o Split(SubSeq(s, i + Len(sep), Len(s)), sep)

\* Header texts: none, no delimiter, one delimiter (bare, padded, the parts
\* swapped), the dash without its blanks, a delimiter cut by the strip, two
\* delimiters.
HeaderTexts ==
    {<<>>,
     <<"T">>,
     <<"T">> \o Delimiter \o <<"A">>,
     <<SP, "T">> \o Delimiter \o <<"A", SP>>,
     <<"A">> \o Delimiter \o <<"T">>,
     <<"T", DASH, "A">>,
     <<"T">> \o Delimiter,
     Delimiter,
     <<"T">> \o Delimiter \o <<"A">> \o Delimiter \o <<"B">>}

\* What get_title_and_author reads of the response to its GET: whether the
\* request succeeded, and the texts of the .page-header-title elements.
HeaderResponses ==
    {[ok |-> FALSE, headers |-> <<>>], [ok |-> TRUE, headers |-> <<>>]}
    \cup {[ok |-> TRUE, headers |-> <<t>>] : t \in HeaderTexts}
    \cup {[ok |-> TRUE, headers |-> <<t, <<"B">> \o Delimiter \o <<"B">>>>] : t \in HeaderTexts}

get_title_and_author(response) ==
    IF ~response.ok THEN Raised("RuntimeError")
    ELSE IF response.headers = <<>> THEN Raised("IndexError")
    ELSE Returned(Split(Strip(response.headers[1]), Delimiter))

\* "title, author = <call>": the call's exception, or the unpacking's.
UnpackPair(outcome) ==
    IF outcome.raised # "none" THEN outcome
    ELSE IF Len(outcome.value) # 2 THEN Raised("ValueError")
    ELSE outcome

----------------------------------------------------------------------------
(* get_cover_picture *)

\* What get_cover_picture reads: whether the page request succeeded, whether
\* the page has a <picture>, whether that has a <source>, whether the source
\* has a srcset, whether the image request succeeded, and whether PIL
\* identifies the bytes as an image.
CoverCase(page_ok, picture, source, srcset, img_ok, img_decodes) ==
    [page_ok |-> page_ok, picture |-> picture, source |-> source,
     srcset |-> srcset, img_ok |-> img_ok, img_decodes |-> img_decodes]

CoverResponses ==
    {CoverCase(FALSE, FALSE, FALSE, FALSE, FALSE, FALSE),
     CoverCase(TRUE, FALSE, FALSE, FALSE, FALSE, FALSE),
     CoverCase(TRUE, TRUE, FALSE, FALSE, FALSE, FALSE),
     CoverCase(TRUE, TRUE, TRUE, FALSE, FALSE, FALSE),
     CoverCase(TRUE, TRUE, TRUE, TRUE, FALSE, FALSE),
     CoverCase(TRUE, TRUE, TRUE, TRUE, TRUE, FALSE),
     CoverCase(TRUE, TRUE, TRUE, TRUE, TRUE, TRUE)}

get_cover_picture(response) ==
    IF ~response.page_ok THEN Raised("RequestException")
    ELSE IF ~response.picture THEN Returned(None)
    ELSE IF ~response.source THEN Returned(None)
    ELSE IF ~response.srcset THEN Raised("AttributeError")
    ELSE IF ~response.img_ok THEN Returned(None)
    ELSE IF ~response.img_decodes THEN Raised("UnidentifiedImageError")
    ELSE Returned(Some("image"))

----------------------------------------------------------------------------
(* scrape_book_from_url and save_book *)

SaveFileArguments == {None, Some(<<>>), Some(<<"o">>)}

\* f"{title}-{author}.epub"
DerivedName(t, a) == t \o <<"-">> \o a \o <<".", "e", "p", "u", "b">>

BookPutFirst(b, chapter_title, chapter_content) ==
    <<[k |-> chapter_title, v |-> chapter_content]>> \o b

\* book[chapter_title] = chapter_content
BookPut(b, chapter_title, chapter_content) ==
    DictSet(b, chapter_title, chapter_content)

Raise(e, at) ==
    /\ error' = e
    /\ error_at' = at
    /\ pc' = "raised"

----------------------------------------------------------------------------
(* The states every specification starts from. *)

Idle ==
    /\ links_in = None /\ links_out = None
    /\ para_in = None /\ para_out = None
    /\ chapter_links = <<>>
    /\ header_in = None
    /\ title = <<>> /\ author = <<>>
    /\ cover_in = None
    /\ cover_picture = None
    /\ book = <<>>
    /\ listing_gets = 0 /\ chapter_gets = 0
    /\ error = "none" /\ error_at = "none"
    /\ sb_path = None
    /\ temp_file = "none" /\ temp_exists = FALSE
    /\ epub_cover = FALSE /\ epub_chapters = <<>>
    /\ output_file = None

----------------------------------------------------------------------------
(* A call of extract_preview_links_and_titles on its own. *)

InitLinks == pc = "start" /\ save_file = None /\ Idle

CallExtractLinks ==
    /\ pc = "start"
    /\ \E response \in LinkResponses :
        /\ links_in' = Some(response)
        /\ links_out' = extract_preview_links_and_titles(response)
    /\ pc' = "returned"
    /\ UNCHANGED <<paraVars, runVars>>

NextLinks == CallExtractLinks

SpecLinks == InitLinks /\ [][NextLinks]_vars

----------------------------------------------------------------------------
(* A call of get_paragraphs_from_url on its own. *)

InitParagraphs == pc = "start" /\ save_file = None /\ Idle

CallGetParagraphs ==
    /\ pc = "start"
    /\ \E response \in ChapterResponses(<<"u">>, Pages(<<"u">>, MaxParagraphs)) :
        /\ para_in' = Some(response)
        /\ para_out' = get_paragraphs_from_url(response)
    /\ pc' = "returned"
    /\ UNCHANGED <<linkVars, runVars>>

NextParagraphs == CallGetParagraphs

SpecParagraphs == InitParagraphs /\ [][NextParagraphs]_vars

----------------------------------------------------------------------------
(* A run of scrape_book_from_url. *)

Init == pc = "line124" /\ save_file \in SaveFileArguments /\ Idle

\* chapter_links = extract_preview_links_and_titles(url)
ScrapeLinks ==
    /\ pc = "line124"
    /\ listing_gets' = listing_gets + 1
    /\ \E response \in LinkResponses :
        LET outcome == extract_preview_links_and_titles(response)
        IN IF outcome.raised # "none"
           THEN /\ Raise(outcome.raised, "extract_preview_links_and_titles")
                /\ UNCHANGED chapter_links
           ELSE /\ chapter_links' = outcome.value
                /\ pc' = "line125"
                /\ UNCHANGED <<error, error_at>>
    /\ UNCHANGED <<linkVars, paraVars, save_file, header_in, title, author,
                   cover_in, cover_picture, book, chapter_gets, sb_path,
                   temp_file, temp_exists, epub_cover, epub_chapters, output_file>>

ScrapeTitleAuthorCached ==
    /\ pc = "line125"
    /\ \E response \in HeaderResponses :
        LET outcome == UnpackPair(get_title_and_author(response))
        IN /\ header_in' = Some(response)
           /\ IF outcome.raised # "none"
              THEN /\ Raise(outcome.raised, "get_title_and_author")
                   /\ UNCHANGED <<title, author>>
              ELSE /\ title' = outcome.value[1]
                   /\ author' = outcome.value[2]
                   /\ pc' = "line126"
                   /\ UNCHANGED <<error, error_at>>
    /\ UNCHANGED <<linkVars, paraVars, save_file, chapter_links, cover_in,
                   cover_picture, book, listing_gets, chapter_gets, sb_path,
                   temp_file, temp_exists, epub_cover, epub_chapters, output_file>>

\* title, author = get_title_and_author(url)
ScrapeTitleAuthor ==
    /\ pc = "line125"
    /\ listing_gets' = listing_gets + 1
    /\ \E response \in HeaderResponses :
        LET outcome == UnpackPair(get_title_and_author(response))
        IN /\ header_in' = Some(response)
           /\ IF outcome.raised # "none"
              THEN /\ Raise(outcome.raised, "get_title_and_author")
                   /\ UNCHANGED <<title, author>>
              ELSE /\ title' = outcome.value[1]
                   /\ author' = outcome.value[2]
                   /\ pc' = "line126"
                   /\ UNCHANGED <<error, error_at>>
    /\ UNCHANGED <<linkVars, paraVars, save_file, chapter_links, cover_in,
                   cover_picture, book, chapter_gets, sb_path,
                   temp_file, temp_exists, epub_cover, epub_chapters, output_file>>

\* cover_picture = get_cover_picture(url); book = {}
ScrapeCover ==
    /\ pc = "line126"
    /\ listing_gets' = listing_gets + 1
    /\ \E response \in CoverResponses :
        LET outcome == get_cover_picture(response)
        IN /\ cover_in' = Some(response)
           /\ IF outcome.raised # "none"
              THEN /\ Raise(outcome.raised, "get_cover_picture")
                   /\ UNCHANGED cover_picture
              ELSE /\ cover_picture' = outcome.value
                   /\ pc' = "line128"
                   /\ UNCHANGED <<error, error_at>>
    /\ book' = <<>>
    /\ UNCHANGED <<linkVars, paraVars, save_file, chapter_links, header_in,
                   title, author, chapter_gets, sb_path,
                   temp_file, temp_exists, epub_cover, epub_chapters, output_file>>

ScrapeChapterSkipsFailures ==
    /\ pc = "line128"
    /\ chapter_gets < Len(chapter_links)
    /\ chapter_gets' = chapter_gets + 1
    /\ LET item == chapter_links[chapter_gets + 1]
       IN \E response \in ChapterResponses(item.v, PlainPages(item.v, MaxParagraphs)) :
           LET outcome == get_paragraphs_from_url(response)
           IN IF outcome.raised # "none"
              THEN UNCHANGED <<book, pc, error, error_at>>
              ELSE /\ book' = BookPut(book, item.k, outcome.value)
                   /\ UNCHANGED <<pc, error, error_at>>
    /\ UNCHANGED <<linkVars, paraVars, save_file, chapter_links, header_in,
                   title, author, cover_in, cover_picture, listing_gets, sb_path,
                   temp_file, temp_exists, epub_cover, epub_chapters, output_file>>

\* One pass of the loop over chapter_links.items():
\* chapter_content = get_paragraphs_from_url(chapter_url);
\* book[chapter_title] = chapter_content
ScrapeChapter ==
    /\ pc = "line128"
    /\ chapter_gets < Len(chapter_links)
    /\ chapter_gets' = chapter_gets + 1
    /\ LET item == chapter_links[chapter_gets + 1]
       IN \E response \in ChapterResponses(item.v, PlainPages(item.v, MaxParagraphs)) :
           LET outcome == get_paragraphs_from_url(response)
           IN IF outcome.raised # "none"
              THEN /\ Raise(outcome.raised, "get_paragraphs_from_url")
                   /\ UNCHANGED book
              ELSE /\ book' = BookPut(book, item.k, outcome.value)
                   /\ UNCHANGED <<pc, error, error_at>>
    /\ UNCHANGED <<linkVars, paraVars, save_file, chapter_links, header_in,
                   title, author, cover_in, cover_picture, listing_gets, sb_path,
                   temp_file, temp_exists, epub_cover, epub_chapters, output_file>>

\* The loop is over: "if save_file: save_file = ..." and the call of save_book.
ScrapeCallSaveBook ==
    /\ pc = "line128"
    /\ chapter_gets = Len(chapter_links)
    /\ save_file' = IF Truthy(save_file) THEN Some(DerivedName(title, author))
                    ELSE save_file
    /\ sb_path' = Some(save_file')
    /\ pc' = "line103"
    /\ UNCHANGED <<linkVars, paraVars, chapter_links, header_in, title, author,
                   cover_in, cover_picture, book, listing_gets, chapter_gets,
                   error, error_at, temp_file, temp_exists, epub_cover,
                   epub_chapters, output_file>>

\* save_book: epub_file = pypub.Epub(...); temp_file = None; with a cover, the
\* temporary file is created and kept on close (delete=False), the image is
\* saved into it (which may raise) and it becomes the cover.
SaveBookCover ==
    /\ pc = "line103"
    /\ IF cover_picture.is_none
       THEN /\ pc' = "line111"
            /\ UNCHANGED <<temp_file, temp_exists, epub_cover, error, error_at>>
       ELSE /\ temp_file' = "open"
            /\ temp_exists' = TRUE
            /\ \/ /\ epub_cover' = TRUE
                  /\ pc' = "line111"
                  /\ UNCHANGED <<error, error_at>>
               \/ /\ Raise("OSError", "save_book")
                  /\ UNCHANGED epub_cover
    /\ UNCHANGED <<linkVars, paraVars, save_file, chapter_links, header_in,
                   title, author, cover_in, cover_picture, book, listing_gets,
                   chapter_gets, sb_path, epub_chapters, output_file>>

\* One pass of the loop over book.items(): the chapter is added, or pypub raises.
SaveBookAddChapter ==
    /\ pc = "line111"
    /\ Len(epub_chapters) < Len(book)
    /\ \/ /\ epub_chapters' = Append(epub_chapters, book[Len(epub_chapters) + 1])
          /\ UNCHANGED <<pc, error, error_at>>
       \/ /\ Raise("PypubError", "save_book")
          /\ UNCHANGED epub_chapters
    /\ UNCHANGED <<linkVars, paraVars, save_file, chapter_links, header_in,
                   title, author, cover_in, cover_picture, book, listing_gets,
                   chapter_gets, sb_path, temp_file, temp_exists, epub_cover,
                   output_file>>

\* epub_file.create(save_file): the file is written, or pypub raises.
SaveBookCreate ==
    /\ pc = "line111"
    /\ Len(epub_chapters) = Len(book)
    /\ \/ /\ output_file' = sb_path
          /\ pc' = "line119"
          /\ UNCHANGED <<error, error_at>>
       \/ /\ Raise("PypubError", "save_book")
          /\ UNCHANGED output_file
    /\ UNCHANGED <<linkVars, paraVars, save_file, chapter_links, header_in,
                   title, author, cover_in, cover_picture, book, listing_gets,
                   chapter_gets, sb_path, temp_file, temp_exists, epub_cover,
                   epub_chapters>>

\* if temp_file: temp_file.close(); save_book and scrape_book_from_url return.
SaveBookClose ==
    /\ pc = "line119"
    /\ temp_file' = IF temp_file = "open" THEN "closed" ELSE temp_file
    /\ pc' = "done"
    /\ UNCHANGED <<linkVars, paraVars, save_file, chapter_links, header_in,
                   title, author, cover_in, cover_picture, book, listing_gets,
                   chapter_gets, error, error_at, sb_path, temp_exists,
                   epub_cover, epub_chapters, output_file>>

Next ==
    \/ ScrapeLinks
    \/ ScrapeTitleAuthor
    \/ ScrapeCover
    \/ ScrapeChapter
    \/ ScrapeCallSaveBook
    \/ SaveBookCover
    \/ SaveBookAddChapter
    \/ SaveBookCreate
    \/ SaveBookClose

Spec == Init /\ [][Next]_vars

----------------------------------------------------------------------------
(* Properties of the link extractor (SpecLinks). *)

LinksReturned == pc = "returned" /\ ~links_in.is_none /\ links_in.val.ok

WellFormed(preview_div) == preview_div.anchor /\ preview_div.title_div

\* The positions of the well-formed containers of the page, in source order.
WellFormedAt(previews) == {i \in 1..Len(previews) : WellFormed(previews[i])}

FirstAt(previews, key) ==
    CHOOSE i \in WellFormedAt(previews) :
        /\ Strip(previews[i].title) = key
        /\ \A j \in WellFormedAt(previews) :
            Strip(previews[j].title) = key => i <= j

LastAt(previews, key) ==
    CHOOSE i \in WellFormedAt(previews) :
        /\ Strip(previews[i].title) = key
        /\ \A j \in WellFormedAt(previews) :
            Strip(previews[j].title) = key => j <= i

DistinctTitles(previews) ==
    \A i, j \in WellFormedAt(previews) :
        Strip(previews[i].title) = Strip(previews[j].title) => i = j

\* C4 as stated: a page with N well-formed preview containers gives a mapping
\* of exactly N entries, the i-th entry being the i-th well-formed container's
\* title and link.
C4_ExactlyNEntries ==
    LinksReturned =>
        LET previews == links_in.val.previews
            m == links_out.value
        IN /\ links_out.raised = "none"
           /\ Len(m) = Cardinality(WellFormedAt(previews))
           /\ \A i \in 1..Len(m) :
                Cardinality({j \in WellFormedAt(previews) :
                                j <= FirstAt(previews, m[i].k)}) = i

\* C4 amended: the mapping has one entry per distinct stripped title of the
\* well-formed containers, ordered by the first container carrying the title
\* and holding the link of the last one; with pairwise distinct titles that
\* is exactly N entries in source order; no container gives the empty mapping.
C4_OneEntryPerTitle ==
    LinksReturned =>
        LET previews == links_in.val.previews
            m == links_out.value
            wf == WellFormedAt(previews)
        IN /\ links_out.raised = "none"
           /\ {m[i].k : i \in 1..Len(m)} = {Strip(previews[j].title) : j \in wf}
           /\ Len(m) = Cardinality({Strip(previews[j].title) : j \in wf})
           /\ \A i \in 1..Len(m) :
                m[i].v = Strip(previews[LastAt(previews, m[i].k)].href)
           /\ \A i, j \in 1..Len(m) :
                i < j => FirstAt(previews, m[i].k) < FirstAt(previews, m[j].k)
           /\ DistinctTitles(previews) =>
                /\ Len(m) = Cardinality(wf)
                /\ \A i \in 1..Len(m) :
                     Cardinality({j \in wf : j <= FirstAt(previews, m[i].k)}) = i
           /\ previews = <<>> => m = <<>>

\* Three well-formed containers of which two share a title give two entries.
C4_Witness ==
    /\ LinksReturned
    /\ Cardinality(WellFormedAt(links_in.val.previews)) = 3
    /\ Len(links_out.value) = 2
    /\ links_out.value[1].k = <<"a">>
    /\ links_out.value[2].k = <<"b">>

\* C5: a container without an a[href], or whose anchor has no title element,
\* is skipped without an error, and the result is the one the page gives with
\* those containers removed.
C5_MalformedSkipped ==
    LinksReturned =>
        /\ links_out.raised = "none"
        /\ links_out =
             extract_preview_links_and_titles(
                 [ok |-> TRUE,
                  previews |-> SelectSeq(links_in.val.previews, WellFormed)])

\* A page whose malformed containers (one of each kind) sit before and
\* between two well-formed ones.
C5_Witness ==
    /\ LinksReturned
    /\ Len(links_in.val.previews) >= 3
    /\ ~links_in.val.previews[1].anchor
    /\ WellFormed(links_in.val.previews[2])
    /\ links_in.val.previews[3].anchor /\ ~links_in.val.previews[3].title_div
    /\ Len(links_out.value) = 1

----------------------------------------------------------------------------
(* Properties of the chapter extractor (SpecParagraphs). *)

HtmlReturned ==
    /\ pc = "returned" /\ ~para_in.is_none /\ para_in.val.ok
    /\ para_in.val.content_type = Some(TextHtml)

\* The positions of the paragraphs of the page with visible text.
NonEmptyAt(paragraphs) ==
    {i \in 1..Len(paragraphs) : \E j \in 1..Len(paragraphs[i]) : paragraphs[i][j] # SP}

\* The position of the j-th paragraph with visible text.
NthNonEmpty(paragraphs, j) ==
    CHOOSE i \in NonEmptyAt(paragraphs) :
        Cardinality({h \in NonEmptyAt(paragraphs) : h <= i}) = j

\* The visible text of a paragraph: from its first to its last non-blank.
Visible(text) ==
    LET at == {j \in 1..Len(text) : text[j] # SP}
        first == CHOOSE j \in at : \A h \in at : j <= h
        last == CHOOSE j \in at : \A h \in at : h <= j
    IN SubSeq(text, first, last)

\* The places of a text where a blank line starts.
BlankLinesAt(text) ==
    {i \in 1..(Len(text) - 1) : text[i] = NL /\ text[i + 1] = NL}

\* The j-th block of a text whose blocks are separated by blank lines.
Block(text, j) ==
    LET cuts == BlankLinesAt(text)
        start == IF j = 1 THEN 1
                 ELSE 2 + CHOOSE i \in cuts : Cardinality({h \in cuts : h <= i}) = j - 1
        stop == IF j = Cardinality(cuts) + 1 THEN Len(text)
                ELSE (CHOOSE i \in cuts : Cardinality({h \in cuts : h <= i}) = j) - 1
    IN SubSeq(text, start, stop)

BlockCount(text) == IF text = <<>> THEN 0 ELSE Cardinality(BlankLinesAt(text)) + 1

\* C3: of the k paragraphs with visible text the extractor keeps the first
\* max(k - 12, 0), in document order, joined by a blank line; with k <= 12 it
\* returns the empty string and raises nothing.
C3_DropsLastTwelve ==
    HtmlReturned =>
        LET paragraphs == para_in.val.paragraphs
            k == Cardinality(NonEmptyAt(paragraphs))
            kept == IF k > 12 THEN k - 12 ELSE 0
            text == para_out.value
        IN /\ para_out.raised = "none"
           /\ BlockCount(text) = kept
           /\ k <= 12 => text = <<>>
           /\ \A j \in 1..kept :
                Block(text, j) = Visible(paragraphs[NthNonEmpty(paragraphs, j)])

\* A page of 14 paragraphs of which one is blank: 13 have text, one is kept.
C3_Witness ==
    /\ HtmlReturned
    /\ Len(para_in.val.paragraphs) = 14
    /\ Cardinality(NonEmptyAt(para_in.val.paragraphs)) = 13
    /\ para_out.value = <<"u", "2">>

----------------------------------------------------------------------------
(* Properties of a run of scrape_book_from_url (Spec). *)

Extractors ==
    {"extract_preview_links_and_titles", "get_title_and_author",
     "get_cover_picture", "get_paragraphs_from_url"}

SaveBookCalled == ~sb_path.is_none

SaveBookExited == pc = "done" \/ error_at = "save_book"

\* C1: when save_book was given a cover image, the temporary cover file is
\* gone from the filesystem once save_book has exited, by return or by raise.
C1_TempFileRemoved ==
    (SaveBookExited /\ ~cover_picture.is_none) => ~temp_exists

\* C2: a failure of the listing fetch, of the metadata, of the cover or of a
\* chapter (its fetch or its Content-Type) ends the run at once: save_book is
\* not called and nothing is written; save_book is called only once every
\* chapter of the link map was fetched and extracted, each URL asked for once.
C2_AbortBeforeWriter ==
    /\ error_at \in Extractors =>
        /\ pc = "raised"
        /\ ~SaveBookCalled
        /\ output_file = None
        /\ epub_chapters = <<>>
        /\ ~temp_exists
    /\ pc = "raised" => ~ENABLED Next
    /\ SaveBookCalled =>
        /\ error_at \notin Extractors
        /\ chapter_gets = Len(chapter_links)
        /\ DictKeys(book) = DictKeys(chapter_links)
    /\ ~output_file.is_none => SaveBookCalled
    /\ chapter_gets <= Len(chapter_links)
    /\ error_at = "get_paragraphs_from_url" => Len(book) = chapter_gets - 1

\* The second of two chapters answers without an html Content-Type.
C2_Witness ==
    /\ pc = "raised"
    /\ error = "ValueError"
    /\ error_at = "get_paragraphs_from_url"
    /\ Len(chapter_links) = 2
    /\ Len(book) = 1
    /\ ~SaveBookCalled

HeaderSeen == ~header_in.is_none /\ header_in.val.ok

\* C6: a listing page without a page-header element, or whose first header
\* lacks the delimiter, fails with MetadataError; a header that is a title,
\* the delimiter and an author gives exactly that title and that author.
C6_MetadataError ==
    HeaderSeen =>
        LET headers == header_in.val.headers
        IN /\ (headers = <<>> \/ ~Contains(headers[1], Delimiter)) =>
                error = "MetadataError"
           /\ \A t, a \in {<<"T">>, <<"A">>} :
                (headers # <<>> /\ headers[1] = t \o Delimiter \o a) =>
                    (error = "none" /\ title = t /\ author = a)

CoverSeen == ~cover_in.is_none /\ cover_in.val.page_ok

\* C7: without a <picture>, without a <source>, when the image fetch fails or
\* when the bytes are no image, get_cover_picture returns None and raises
\* nothing.
C7_CoverFailuresSwallowed ==
    CoverSeen =>
        LET c == cover_in.val
        IN (~c.picture \/ ~c.source \/ (c.srcset /\ (~c.img_ok \/ ~c.img_decodes))) =>
               (error_at # "get_cover_picture" /\ cover_picture = None)

\* C8: whatever save_file the caller gave (none, empty or a path), the path
\* handed to save_book is "{title}-{author}.epub".
C8_DerivedPath ==
    SaveBookCalled => sb_path = Some(Some(DerivedName(title, author)))

FromUrl(text, url) ==
    \A j \in 1..BlockCount(text) : SubSeq(Block(text, j), 1, Len(url)) = url

\* C10: at every point of the chapter loop the book's keys are the keys of
\* the link map processed so far, in the link map's order; when the loop is
\* over the book has the link map's keys in its order, each with the text
\* read from its own url; save_book adds the chapters in that order.
C10_ChaptersInListingOrder ==
    /\ DictKeys(book) = SubSeq(DictKeys(chapter_links), 1, Len(book))
    /\ pc = "line128" => Len(book) = chapter_gets
    /\ \A i \in 1..Len(book) : FromUrl(book[i].v, chapter_links[i].v)
    /\ SaveBookCalled => DictKeys(book) = DictKeys(chapter_links)
    /\ epub_chapters = SubSeq(book, 1, Len(epub_chapters))
    /\ pc \in {"line119", "done"} => epub_chapters = book

\* A finished run whose two chapters have text from two different urls.
C10_Witness ==
    /\ pc = "done"
    /\ Len(book) = 2
    /\ book[1].v # <<>> /\ book[2].v # <<>>
    /\ chapter_links[1].v # chapter_links[2].v
    /\ epub_chapters = book

====
